---- MODULE Spec2Model ----
EXTENDS Naturals, Integers, Sequences, FiniteSets, TLC

\* Model of the mock row set of sqlrows-go: the column-specification parser
\* (parseColumnSpec, getColumnType), the dialect registry tables and the row
\* store with its cursor (Add, AddRow, Next, Scan, NextResultSet, Columns,
\* ColumnTypes).
\*
\* A Go string that the parser takes apart is a sequence of tokens: the
\* separators ";", "=", " " and "*" are tokens of their own and every other
\* token is a run of characters holding none of them.  Split, SplitN, TrimSpace,
\* HasPrefix and TrimPrefix work on the tokens; Join gives the Go string.

\* given      what each specification string was written to say (Render makes
\*            the string of it); read by the properties only
\* cols       the specification strings given to NewMockRowSet
\* dbType     the dialect given to NewMockRowSet
\* handler    the failure handler installed in onPanic
\* pc, ci     where NewMockRowSet is: in its loop before cols[ci], returned,
\*            or aborted by a panic of the failure handler
\* m          the mockRowSet
\* captured   the messages the failure handler has kept
\* last       the last call made, with its arguments and results
\* hist       what the calls so far have been (read by the properties only)
VARIABLES given, cols, dbType, handler, pc, ci, m, captured, last, hist

vars == <<given, cols, dbType, handler, pc, ci, m, captured, last, hist>>

\* ---------------------------------------------------------------- bounds

MaxCols == 2
MaxRows == 2
MaxNext == 4
MaxFail == 1

\* ------------------------------------------------------- mock-mappings.go

DbTypeSnowflake == 0
DbTypePostgresSQL == 1
DbTypeMsSQL == 2

Dflt(l, p, s) == [length |-> l, precision |-> p, scale |-> s]

dbTypeDefaults ==
    (DbTypeSnowflake :> (
        "VARCHAR" :> Dflt(16777216, 0, 0) @@
        "NUMBER" :> Dflt(0, 38, 0) @@
        "DECIMAL" :> Dflt(0, 38, 0) @@
        "INTEGER" :> Dflt(0, 0, 0) @@
        "BIGINT" :> Dflt(0, 0, 0) @@
        "FLOAT" :> Dflt(0, 0, 0) @@
        "DOUBLE" :> Dflt(0, 0, 0) @@
        "BOOLEAN" :> Dflt(0, 0, 0) @@
        "TIMESTAMP" :> Dflt(0, 0, 0)))
    @@ (DbTypePostgresSQL :> (
        "TEXT" :> Dflt(1073741824, 0, 0) @@
        "VARCHAR" :> Dflt(1073741824, 0, 0) @@
        "NUMERIC" :> Dflt(0, 0, 0) @@
        "DECIMAL" :> Dflt(0, 0, 0) @@
        "INTEGER" :> Dflt(0, 0, 0) @@
        "BIGINT" :> Dflt(0, 0, 0) @@
        "SMALLINT" :> Dflt(0, 0, 0) @@
        "REAL" :> Dflt(0, 6, 0) @@
        "DOUBLE precision" :> Dflt(0, 15, 0) @@
        "BOOLEAN" :> Dflt(0, 0, 0) @@
        "TIMESTAMP WITH TIME ZONE" :> Dflt(0, 0, 0) @@
        "UUID" :> Dflt(0, 0, 0)))
    @@ (DbTypeMsSQL :> (
        "NVARCHAR(MAX)" :> Dflt(2147483647, 0, 0) @@
        "VARCHAR(MAX)" :> Dflt(2147483647, 0, 0) @@
        "DECIMAL" :> Dflt(0, 18, 0) @@
        "NUMERIC" :> Dflt(0, 18, 0) @@
        "INT" :> Dflt(0, 0, 0) @@
        "BIGINT" :> Dflt(0, 0, 0) @@
        "SMALLINT" :> Dflt(0, 0, 0) @@
        "TINYINT" :> Dflt(0, 0, 0) @@
        "REAL" :> Dflt(0, 7, 0) @@
        "FLOAT" :> Dflt(0, 15, 0) @@
        "BIT" :> Dflt(0, 0, 0) @@
        "DATETIME2" :> Dflt(0, 0, 0) @@
        "UNIQUEIDENTIFIER" :> Dflt(0, 0, 0)))

\* The keys of baseTypes; the reflect.Type stored under a key is modelled by
\* the key itself (GoType below).
baseTypes ==
    {"bool", "int", "int8", "int16", "int32", "int64", "uint", "uint8",
     "uint16", "uint32", "uint64", "float32", "float64", "complex64",
     "complex128", "string", "byte", "rune", "uintptr", "time.Time",
     "uuid.UUID"}

dbTypesSnowflake ==
    "bool" :> "BOOLEAN" @@ "int" :> "INTEGER" @@ "int8" :> "INTEGER" @@
    "int16" :> "INTEGER" @@ "int32" :> "INTEGER" @@ "int64" :> "BIGINT" @@
    "uint" :> "INTEGER" @@ "uint8" :> "INTEGER" @@ "uint16" :> "INTEGER" @@
    "uint32" :> "BIGINT" @@ "uint64" :> "BIGINT" @@ "float32" :> "FLOAT" @@
    "float64" :> "DOUBLE" @@ "complex64" :> "VARCHAR" @@
    "complex128" :> "VARCHAR" @@ "string" :> "VARCHAR" @@
    "byte" :> "INTEGER" @@ "rune" :> "INTEGER" @@ "uintptr" :> "BIGINT" @@
    "time.Time" :> "TIMESTAMP" @@ "uuid.UUID" :> "VARCHAR"

dbTypesPostgres ==
    "bool" :> "BOOLEAN" @@ "int" :> "INTEGER" @@ "int8" :> "SMALLINT" @@
    "int16" :> "SMALLINT" @@ "int32" :> "INTEGER" @@ "int64" :> "BIGINT" @@
    "uint" :> "INTEGER" @@ "uint8" :> "SMALLINT" @@ "uint16" :> "INTEGER" @@
    "uint32" :> "BIGINT" @@ "uint64" :> "NUMERIC(20)" @@
    "float32" :> "REAL" @@ "float64" :> "DOUBLE PRECISION" @@
    "complex64" :> "TEXT" @@ "complex128" :> "TEXT" @@ "string" :> "TEXT" @@
    "byte" :> "SMALLINT" @@ "rune" :> "INTEGER" @@ "uintptr" :> "BIGINT" @@
    "time.Time" :> "TIMESTAMP WITH TIME ZONE" @@ "uuid.UUID" :> "UUID"

dbTypesMsSql ==
    "bool" :> "BIT" @@ "int" :> "INT" @@ "int8" :> "TINYINT" @@
    "int16" :> "SMALLINT" @@ "int32" :> "INT" @@ "int64" :> "BIGINT" @@
    "uint" :> "INT" @@ "uint8" :> "TINYINT" @@ "uint16" :> "INT" @@
    "uint32" :> "BIGINT" @@ "uint64" :> "DECIMAL(20)" @@
    "float32" :> "REAL" @@ "float64" :> "FLOAT" @@
    "complex64" :> "NVARCHAR(MAX)" @@ "complex128" :> "NVARCHAR(MAX)" @@
    "string" :> "NVARCHAR(MAX)" @@ "byte" :> "TINYINT" @@ "rune" :> "INT" @@
    "uintptr" :> "BIGINT" @@ "time.Time" :> "DATETIME2" @@
    "uuid.UUID" :> "UNIQUEIDENTIFIER"

\* A Go map read: the value stored under k, or the zero value of the value
\* type when the map holds no k.
MapGet(table, k, zero) == IF k \in DOMAIN table THEN table[k] ELSE zero

\* ------------------------------------------------------ strings, strconv

RECURSIVE Join(_)
Join(toks) == IF toks = <<>> THEN "" ELSE Head(toks) \o Join(Tail(toks))

RECURSIVE Split(_, _)
\* strings.Split(s, sep): the pieces between the separators, at least one.
Split(toks, sep) ==
    IF \A i \in 1..Len(toks) : toks[i] # sep
    THEN <<toks>>
    ELSE LET i == CHOOSE j \in 1..Len(toks) :
                      toks[j] = sep /\ \A h \in 1..(j - 1) : toks[h] # sep
         IN  <<SubSeq(toks, 1, i - 1)>> \o Split(SubSeq(toks, i + 1, Len(toks)), sep)

\* strings.SplitN(s, sep, 2): cut at the first separator only.
SplitN2(toks, sep) ==
    IF \A i \in 1..Len(toks) : toks[i] # sep
    THEN <<toks>>
    ELSE LET i == CHOOSE j \in 1..Len(toks) :
                      toks[j] = sep /\ \A h \in 1..(j - 1) : toks[h] # sep
         IN  <<SubSeq(toks, 1, i - 1), SubSeq(toks, i + 1, Len(toks))>>

RECURSIVE TrimLeft(_)
TrimLeft(toks) ==
    IF toks # <<>> /\ Head(toks) = " " THEN TrimLeft(Tail(toks)) ELSE toks

RECURSIVE TrimRight(_)
TrimRight(toks) ==
    IF toks # <<>> /\ toks[Len(toks)] = " "
    THEN TrimRight(SubSeq(toks, 1, Len(toks) - 1))
    ELSE toks

TrimSpace(toks) == TrimRight(TrimLeft(toks))

HasPrefix(toks, p) == toks # <<>> /\ Head(toks) = p

TrimPrefix(toks, p) == IF HasPrefix(toks, p) THEN Tail(toks) ELSE toks

\* The decimal numerals the inputs use, with their values.
Numerals == "0" :> 0 @@ "2" :> 2 @@ "10" :> 10 @@ "64" :> 64

\* strconv.ParseInt(value, 10, 64): the value, or an error for what is no
\* decimal numeral (the empty string and text with a blank inside included).
ParseInt(s) ==
    IF s \in DOMAIN Numerals
    THEN [err |-> FALSE, v |-> Numerals[s]]
    ELSE [err |-> TRUE, v |-> 0]

\* The letter-case pairs of the names the inputs use.
LowerOf == "ID" :> "id" @@ "Id" :> "id" @@ "NAME" :> "name" @@ "TS" :> "ts" @@ "XYZ" :> "xyz"

\* strings.ToLower
ToLower(s) == MapGet(LowerOf, s, s)

\* ------------------------------------------------------ mock-adapter.go

\* A value of type any: nil, or a value v of Go type t.
Nil == [t |-> "nil", v |-> 0]

\* reflect.Type: a base type of baseTypes or the pointer to one; NilType is the
\* nil reflect.Type.
GoType(isPointer, base) == [ptr |-> isPointer, base |-> base]

NilType == [ptr |-> FALSE, base |-> ""]

\* *int64: nil, or the address of a parsed number.
NilInt == [set |-> FALSE, v |-> 0]

PtrInt(n) == [set |-> TRUE, v |-> n]

\* The zero value of databaseDefaults.
ZeroDefaults == Dflt(0, 0, 0)

\* The process-wide failure handler, called with the messages msgs one after
\* the other by a function that goes on when the handler returns.  The default
\* handler panics with the first message.  The handler of HooksPanic keeps the
\* first message and panics when it is given a second one.  A handler that
\* keeps every message and returns is the third.  The result: the messages
\* kept so far, whether the caller was aborted by a panic, and the number of
\* calls of the handler.
RECURSIVE onPanic(_, _, _)
onPanic(mode, kept, msgs) ==
    IF msgs = <<>>
    THEN [captured |-> kept, aborted |-> FALSE, calls |-> 0]
    ELSE LET rest == onPanic(mode, Append(kept, Head(msgs)), Tail(msgs))
             goOn == [rest EXCEPT !.calls = @ + 1]
             panic == [captured |-> kept, aborted |-> TRUE, calls |-> 1]
         IN  CASE mode = "panic" -> panic
               [] mode = "hooks" ->
                    IF kept # <<>> \/ Head(msgs) = "" THEN panic ELSE goOn
               [] OTHER -> goOn

getColumnType(typeStr, dialect) ==
    LET ts == TrimSpace(typeStr)
        isPointer == HasPrefix(ts, "*")
        baseType == Join(TrimPrefix(ts, "*"))
        dbTypes == CASE dialect = DbTypeSnowflake -> dbTypesSnowflake
                     [] dialect = DbTypePostgresSQL -> dbTypesPostgres
                     [] OTHER -> dbTypesMsSql
    IN  IF baseType \notin baseTypes
        THEN [goColType |-> NilType, dbColType |-> "", nullable |-> FALSE,
              msgs |-> <<"unsupported type: " \o Join(ts)>>]
        ELSE IF dialect \notin {DbTypeSnowflake, DbTypePostgresSQL, DbTypeMsSQL}
        THEN [goColType |-> GoType(isPointer, baseType), dbColType |-> "",
              nullable |-> isPointer, msgs |-> <<"invalid database type">>]
        ELSE IF MapGet(dbTypes, baseType, "") = ""
        THEN [goColType |-> GoType(isPointer, baseType), dbColType |-> "",
              nullable |-> isPointer,
              msgs |-> <<"database type table out of sync with base type table for base type "
                         \o baseType>>]
        ELSE [goColType |-> GoType(isPointer, baseType),
              dbColType |-> dbTypes[baseType],
              nullable |-> isPointer, msgs |-> <<>>]

\* The locals of parseColumnSpec before its first pair.
NoFields ==
    [colName |-> <<>>, typeStr |-> <<>>, dbTypeStr |-> <<>>, length |-> NilInt,
     precision |-> NilInt, scale |-> NilInt, msg |-> ""]

\* One round of the loop over the key=value pairs: the locals after the pair
\* part, with msg set when the pair is reported to the failure handler.
ParsePair(f, rawPart) ==
    LET part == TrimSpace(rawPart)
        kv == SplitN2(part, "=")
        key == Join(TrimSpace(kv[1]))
        value == TrimSpace(kv[2])
        n == ParseInt(Join(value))
    IN  IF part = <<>> THEN f
        ELSE IF Len(kv) # 2
        THEN [f EXCEPT !.msg = "invalid key=value pair in column spec: " \o Join(part)]
        ELSE CASE key = "name" -> [f EXCEPT !.colName = value]
               [] key = "type" -> [f EXCEPT !.typeStr = value]
               [] key = "length" ->
                    IF n.err
                    THEN [f EXCEPT !.msg = "invalid length in column spec: " \o Join(value)]
                    ELSE [f EXCEPT !.length = PtrInt(n.v)]
               [] key = "precision" ->
                    IF n.err
                    THEN [f EXCEPT !.msg = "invalid precision in column spec: " \o Join(value)]
                    ELSE [f EXCEPT !.precision = PtrInt(n.v)]
               [] key = "scale" ->
                    IF n.err
                    THEN [f EXCEPT !.msg = "invalid scale in column spec: " \o Join(value)]
                    ELSE [f EXCEPT !.scale = PtrInt(n.v)]
               [] key = "dbType" -> [f EXCEPT !.dbTypeStr = value]
               [] OTHER -> [f EXCEPT !.msg = "unknown keyword in column spec: " \o key]

RECURSIVE ParsePairs(_, _)
\* The loop over the pairs: it ends at the first pair that is reported.
ParsePairs(f, parts) ==
    IF parts = <<>> \/ f.msg # ""
    THEN f
    ELSE ParsePairs(ParsePair(f, Head(parts)), Tail(parts))

\* Rows shorter than the new column count get a longer copy, nil at the end.
WidenRows(values, width) ==
    [i \in 1..Len(values) |->
        IF Len(values[i]) < width
        THEN [j \in 1..width |->
                 IF j <= Len(values[i]) THEN values[i][j] ELSE Nil]
        ELSE values[i]]

\* The append at the end of parseColumnSpec (lines 297-310).
AppendColumn(row, colName, colType) ==
    LET index == Len(row.columns)
    IN  [row EXCEPT
            !.order = @ \cup {colName},
            !.orderLwr = (ToLower(colName) :> index) @@ @,
            !.columns = Append(@, colName),
            !.columnTypes = Append(@, colType),
            !.values = WidenRows(@, index + 1)]

\* Lines 256-260: the provided dbType if specified, otherwise the default.
ResolveDbType(dbTypeStr, defaultDbType) ==
    IF dbTypeStr # <<>> THEN Join(dbTypeStr) ELSE defaultDbType

LoadDefaultsOfSnowflake(dialect, dbColType) ==
    MapGet(dbTypeDefaults[DbTypeSnowflake], dbColType, ZeroDefaults)

\* Lines 263-268: the defaults of the native type name in the dialect's table.
LoadDefaults(dialect, dbColType) ==
    MapGet(dbTypeDefaults[dialect], dbColType, ZeroDefaults)

OverrideUnlessZero(explicit, default) ==
    IF explicit.set /\ explicit.v # 0 THEN explicit.v ELSE default

\* Lines 270-278: the parsed number if the pair was given, else the default.
Override(explicit, default) == IF explicit.set THEN explicit.v ELSE default

ExistsInThisCase(row, colName) == colName \in row.order

\* Lines 292-293: whether the row set has a column of this name in any case.
Exists(row, colName) == ToLower(colName) \in DOMAIN row.orderLwr

\* parseColumnSpec with a failure handler that returns: the row set after the
\* call and the messages given to the handler, in order.  Every call of the
\* handler comes before the first write to the row set, so a handler that
\* panics leaves the row set as it was.
parseColumnSpec(colSpec, dialect, row) ==
    LET parts == Split(colSpec, ";")
        f == ParsePairs(NoFields, parts)
        ct == getColumnType(f.typeStr, dialect)
        dbColType == ResolveDbType(f.dbTypeStr, ct.dbColType)
        defaults == LoadDefaults(dialect, dbColType)
        colName == Join(f.colName)
        colType == [colName |-> colName,
                    colType |-> ct.goColType,
                    nullable |-> ct.nullable,
                    length |-> Override(f.length, defaults.length),
                    precision |-> Override(f.precision, defaults.precision),
                    scale |-> Override(f.scale, defaults.scale),
                    databaseType |-> dbColType]
    IN  IF Len(parts) = 0
        THEN [row |-> row, msgs |-> <<"empty column specification: " \o Join(colSpec)>>]
        ELSE IF f.msg # ""
        THEN [row |-> row, msgs |-> <<f.msg>>]
        ELSE IF f.colName = <<>>
        THEN [row |-> row,
              msgs |-> <<"column spec missing required 'name': " \o Join(colSpec)>>]
        ELSE IF f.typeStr = <<>>
        THEN [row |-> row,
              msgs |-> <<"column spec missing required 'type': " \o Join(colSpec)>>]
        ELSE IF dialect \notin DOMAIN dbTypeDefaults
        THEN [row |-> row, msgs |-> ct.msgs \o <<"datatabase type is not valid">>]
        ELSE IF Exists(row, colName)
        THEN [row |-> row,
              msgs |-> ct.msgs \o <<"duplicate column name in mock row set: " \o colName>>]
        ELSE [row |-> AppendColumn(row, colName, colType), msgs |-> ct.msgs]

\* ------------------------------------------------- specification strings

Handlers == {"panic", "hooks", "capture"}

\* One key=value pair of a specification string; spaced puts blanks around
\* the key and the value.
Pair(key, value, spaced) ==
    IF spaced
    THEN <<" ", key, " ", "=", " ">> \o value \o <<" ">>
    ELSE <<key, "=">> \o value

RECURSIVE JoinParts(_)
JoinParts(parts) ==
    IF Len(parts) = 1 THEN Head(parts)
    ELSE Head(parts) \o <<";">> \o JoinParts(Tail(parts))

\* What a specification string is written to say: the column name, the type
\* (tokens, "*" first for a pointer), the numerals of length, precision and
\* scale, the dbType ("" and <<>> where a pair is left out), a malformed pair
\* ("noeq": a pair without "=", "key": an unknown keyword) and the layout.
Recipe(name, ty, length, precision, scale, dbt, extra, spaced) ==
    [name |-> name, ty |-> ty, length |-> length, precision |-> precision,
     scale |-> scale, dbt |-> dbt, extra |-> extra, spaced |-> spaced]

\* The specification string of a recipe.
Render(r) ==
    LET opt(key, text) == IF text = "" THEN <<>> ELSE <<Pair(key, <<text>>, r.spaced)>>
        parts == opt("name", r.name)
                 \o (IF r.ty = <<>> THEN <<>> ELSE <<Pair("type", r.ty, r.spaced)>>)
                 \o opt("length", r.length)
                 \o opt("precision", r.precision)
                 \o opt("scale", r.scale)
                 \o opt("dbType", r.dbt)
                 \o (CASE r.extra = "noeq" -> <<<<"oops">>>>
                       [] r.extra = "key" -> <<Pair("size", <<"2">>, r.spaced)>>
                       [] OTHER -> <<>>)
                 \o (IF r.spaced THEN <<<<" ">>, <<>>>> ELSE <<>>)
    IN  IF parts = <<>> THEN <<>> ELSE JoinParts(parts)

\* Specifications of one column with every semantic type and every choice of
\* explicit and omitted length, precision, scale and dbType.
AttrRecipes ==
    {Recipe("ID", ty, l, p, s, d, "none", FALSE) :
        ty \in {<<b>> : b \in baseTypes} \cup {<<"*", "int64">>, <<"*", "time.Time">>},
        l \in {"", "0", "64"}, p \in {"", "0", "10"}, s \in {"", "0", "2"},
        d \in {"", "NUMBER", "TIMESTAMP_NTZ"}}

\* Accepted and rejected specifications with few names, to put several in
\* one list.
ListRecipes ==
    {Recipe(n, ty, "", "", "", "", "none", FALSE) :
        n \in {"ID", "Id", "NAME"}, ty \in {<<"int64">>, <<"*", "time.Time">>}}
    \cup {Recipe("ID", <<"string">>, "64", "", "", "", "none", TRUE),
          Recipe("", <<"int">>, "", "", "", "", "none", FALSE),
          Recipe("NAME", <<>>, "", "", "", "", "none", FALSE),
          Recipe("NAME", <<"int">>, "abc", "", "", "", "none", FALSE),
          Recipe("NAME", <<"int">>, "", "1.5", "", "", "none", FALSE),
          Recipe("NAME", <<"int">>, "", "", "x", "", "none", TRUE),
          Recipe("NAME", <<"varchar">>, "", "", "", "", "none", FALSE),
          Recipe("NAME", <<"*", " ", "int">>, "", "", "", "", "none", FALSE),
          Recipe("NAME", <<"int">>, "", "", "", "", "noeq", FALSE),
          Recipe("NAME", <<"int">>, "", "", "", "", "key", FALSE)}

\* The column lists of the row sets whose rows are added and read.
RowRecipes ==
    {<<Recipe("ID", <<"int64">>, "", "", "", "", "none", FALSE)>>,
     <<Recipe("ID", <<"int64">>, "", "", "", "", "none", FALSE),
       Recipe("TS", <<"*", "time.Time">>, "", "", "", "", "none", FALSE)>>}

RECURSIVE SeqsUpTo(_, _)
\* The sequences of at most n elements of S.
SeqsUpTo(S, n) ==
    IF n = 0 THEN {<<>>}
    ELSE LET shorter == SeqsUpTo(S, n - 1)
         IN  shorter \cup {Append(q, x) : q \in {t \in shorter : Len(t) = n - 1}, x \in S}

\* --------------------------------------------------------- NewMockRowSet

\* NewMockRowSet, lines 66-69: the empty row set.
NewRow ==
    [order |-> {}, orderLwr |-> <<>>, columns |-> <<>>, columnTypes |-> <<>>,
     values |-> <<>>, pos |-> 0, err |-> "nil", hasNextSet |-> FALSE]

\* The history before the first call: nNext counts the calls of Next, lastNext
\* is the result of the latest one, addedAfter says that a row was appended
\* after the first Next, falseNoAdd that Next has returned false and no row
\* was appended since, scanFirst that Scan was called before any Next (kept
\* until the second Next), nTrue counts the calls of Next that returned true.
NoHist ==
    [nNext |-> 0, addedAfter |-> FALSE, lastNext |-> "none", falseNoAdd |-> FALSE,
     scanFirst |-> FALSE, nTrue |-> 0]

\* The entry of NewMockRowSet(cols, dbType) with the given recipes rendered.
Entry(recipes, dialects, handlers) ==
    /\ given \in recipes
    /\ cols = [i \in 1..Len(given) |-> Render(given[i])]
    /\ dbType \in dialects
    /\ handler \in handlers
    /\ pc = "new"
    /\ ci = 1
    /\ m = NewRow
    /\ captured = <<>>
    /\ last = [op |-> "none"]
    /\ hist = NoHist

\* One round of the loop of NewMockRowSet (lines 71-73): parseColumnSpec on
\* the next specification string.  A panic of the failure handler ends the
\* call without a row set.
ParseStep ==
    /\ pc = "new"
    /\ ci <= Len(cols)
    /\ LET r == parseColumnSpec(cols[ci], dbType, m)
           h == onPanic(handler, captured, r.msgs)
       IN  /\ captured' = h.captured
           /\ pc' = IF h.aborted THEN "aborted" ELSE "new"
           /\ m' = IF h.aborted THEN m ELSE r.row
           /\ ci' = IF h.aborted THEN ci ELSE ci + 1
           /\ last' = [op |-> "parseColumnSpec", i |-> ci, calls |-> h.calls,
                       msgs |-> SubSeq(r.msgs, 1, h.calls),
                       aborted |-> h.aborted, before |-> m.columnTypes]
    /\ UNCHANGED <<given, cols, dbType, handler, hist>>

\* NewMockRowSet returns the row set (line 75).
Return ==
    /\ pc = "new"
    /\ ci > Len(cols)
    /\ pc' = "ready"
    /\ last' = [op |-> "NewMockRowSet"]
    /\ UNCHANGED <<given, cols, dbType, handler, ci, m, captured, hist>>

\* ---------------------------------------------------- column type views

Name(ct) == ct.colName

Length(ct) == <<ct.length, ct.length # 0>>

DecimalSize(ct) == <<ct.precision, ct.scale, ct.precision # 0 \/ ct.scale # 0>>

Nullable(ct) == <<ct.nullable, TRUE>>

DatabaseTypeName(ct) == ct.databaseType

ScanType(ct) == ct.colType

\* ColumnTypes(): a new list holding every descriptor, in order.
ColumnTypesOf(row) == [i \in 1..Len(row.columnTypes) |-> row.columnTypes[i]]

ColumnTypes ==
    /\ pc = "ready"
    /\ last' = [op |-> "ColumnTypes", ret |-> ColumnTypesOf(m), err |-> "nil",
                before |-> m]
    /\ UNCHANGED <<given, cols, dbType, handler, pc, ci, m, captured, hist>>

ColumnsLowered(row) == [i \in 1..Len(row.columns) |-> ToLower(row.columns[i])]

\* Columns(): the list of names itself.
ColumnsOf(row) == row.columns

Columns ==
    /\ pc = "ready"
    /\ last' = [op |-> "Columns", ret |-> ColumnsOf(m), err |-> "nil", before |-> m]
    /\ UNCHANGED <<given, cols, dbType, handler, pc, ci, m, captured, hist>>

\* ------------------------------------------------------ rows and cursor

\* The values given to Add and AddRow: nil, an int64 and a *time.Time.
I1 == [t |-> "int64", v |-> 1]

T1 == [t |-> "*time.Time", v |-> 2]


\* The maps given to Add: no name, one name in either letter case, both
\* columns, one column under two spellings, a value of another type, and a
\* name that is no column, alone and beside a column.
AddMaps ==
    {<<>>,
     "ID" :> I1,
     "Id" :> I1,
     "ID" :> T1,
     "TS" :> T1,
     ("ID" :> I1) @@ ("TS" :> T1),
     ("Id" :> I1) @@ ("TS" :> Nil),
     ("ID" :> I1) @@ ("Id" :> T1),
     "XYZ" :> I1,
     ("ID" :> I1) @@ ("XYZ" :> T1)}

\* The value lists given to AddRow: of no, one, two and three values.
AddRowValues ==
    {<<>>, <<I1>>, <<I1, T1>>, <<Nil, T1>>, <<I1, T1, I1>>}

RECURSIVE Orders(_)
\* The orders in which a range over a Go map may visit the keys.
Orders(keys) ==
    IF keys = {} THEN {<<>>}
    ELSE UNION {{<<k>> \o rest : rest \in Orders(keys \ {k})} : k \in keys}

RECURSIVE AddLoop(_, _, _, _)
\* The loop of Add over the map (lines 80-88), visiting the keys in order:
\* the values placed so far, and the message of the first unknown name.
AddLoop(row, rowMap, order, vals) ==
    IF order = <<>>
    THEN [vals |-> vals, msgs |-> <<>>]
    ELSE LET k == Head(order)
         IN  IF ToLower(k) \notin DOMAIN row.orderLwr
             THEN [vals |-> vals, msgs |-> <<"column " \o k \o " does not exist">>]
             ELSE AddLoop(row, rowMap, Tail(order),
                          [vals EXCEPT ![row.orderLwr[ToLower(k)] + 1] = rowMap[k]])

\* make([]any, n)
MakeRow(n) == [j \in 1..n |-> Nil]

AddOfKeepsRow(row, rowMap, order) ==
    LET r == AddLoop(row, rowMap, order, MakeRow(Len(row.columns)))
    IN  [row |-> [row EXCEPT !.values = Append(@, r.vals)], msgs |-> r.msgs]

\* Add with a failure handler that returns: the row set after the call and
\* the messages given to the handler.
AddOf(row, rowMap, order) ==
    LET r == AddLoop(row, rowMap, order, MakeRow(Len(row.columns)))
    IN  IF r.msgs # <<>>
        THEN [row |-> row, msgs |-> r.msgs]
        ELSE [row |-> [row EXCEPT !.values = Append(@, r.vals)], msgs |-> <<>>]

CopyWhole(dst, src) == src

\* copy(dst, src): as many elements as the shorter of the two holds.
Copy(dst, src) ==
    [j \in 1..Len(dst) |-> IF j <= Len(src) THEN src[j] ELSE dst[j]]

AddRowOf(row, values) ==
    [row EXCEPT !.values = Append(@, Copy(MakeRow(Len(row.columns)), values))]

\* The history after a row was appended.
Appended(h) ==
    [h EXCEPT !.addedAfter = @ \/ h.nNext > 0, !.falseNoAdd = FALSE]

Add ==
    /\ pc = "ready"
    /\ Len(m.values) < MaxRows
    /\ \E rowMap \in AddMaps : \E order \in Orders(DOMAIN rowMap) :
         LET r == AddOf(m, rowMap, order)
             h == onPanic(handler, captured, r.msgs)
         IN  /\ Len(h.captured) <= MaxFail
             /\ captured' = h.captured
             /\ pc' = IF h.aborted THEN "aborted" ELSE "ready"
             /\ m' = IF h.aborted THEN m ELSE r.row
             /\ last' = [op |-> "Add", row |-> rowMap, calls |-> h.calls,
                         msgs |-> SubSeq(r.msgs, 1, h.calls),
                         aborted |-> h.aborted, before |-> m]
             /\ hist' = IF r.msgs = <<>> THEN Appended(hist) ELSE hist
    /\ UNCHANGED <<given, cols, dbType, handler, ci>>

AddRow ==
    /\ pc = "ready"
    /\ Len(m.values) < MaxRows
    /\ \E values \in AddRowValues :
         /\ m' = AddRowOf(m, values)
         /\ last' = [op |-> "AddRow", values |-> values, before |-> m]
    /\ hist' = Appended(hist)
    /\ UNCHANGED <<given, cols, dbType, handler, pc, ci, captured>>

NextOneTooMany(row) ==
    IF row.pos <= Len(row.values)
    THEN [row |-> [row EXCEPT !.pos = @ + 1], ret |-> TRUE]
    ELSE [row |-> [row EXCEPT !.pos = Len(row.values) + 1], ret |-> FALSE]

\* Next(): the row set after the call and the result.
NextOf(row) ==
    IF row.pos < Len(row.values)
    THEN [row |-> [row EXCEPT !.pos = @ + 1], ret |-> TRUE]
    ELSE [row |-> [row EXCEPT !.pos = Len(row.values) + 1], ret |-> FALSE]

Next ==
    /\ pc = "ready"
    /\ hist.nNext < MaxNext
    /\ LET r == NextOf(m)
       IN  /\ m' = r.row
           /\ last' = [op |-> "Next", ret |-> r.ret, afterFalse |-> hist.falseNoAdd,
                       before |-> m]
           /\ hist' = [hist EXCEPT !.nNext = @ + 1,
                                   !.lastNext = IF r.ret THEN "true" ELSE "false",
                                   !.falseNoAdd = ~r.ret,
                                   !.scanFirst = @ /\ hist.nNext = 0,
                                   !.nTrue = IF r.ret THEN @ + 1 ELSE @]
    /\ UNCHANGED <<given, cols, dbType, handler, pc, ci, captured>>

NextResultSetRewinds(row) ==
    IF row.hasNextSet
    THEN [row |-> [row EXCEPT !.hasNextSet = FALSE, !.pos = 0], ret |-> TRUE]
    ELSE [row |-> row, ret |-> FALSE]

\* NextResultSet(): the row set after the call and the result.
NextResultSetOf(row) ==
    IF row.hasNextSet
    THEN [row |-> [row EXCEPT !.hasNextSet = FALSE], ret |-> TRUE]
    ELSE [row |-> row, ret |-> FALSE]

NextResultSet ==
    /\ pc = "ready"
    /\ LET r == NextResultSetOf(m)
       IN  /\ m' = r.row
           /\ last' = [op |-> "NextResultSet", ret |-> r.ret, before |-> m]
    /\ UNCHANGED <<given, cols, dbType, handler, pc, ci, captured, hist>>

\* The owner of the row set sets hasNextSet, as the test of NextResultSet does.
SetHasNextSet ==
    /\ pc = "ready"
    /\ m' = [m EXCEPT !.hasNextSet = TRUE]
    /\ last' = [op |-> "SetHasNextSet", before |-> m]
    /\ UNCHANGED <<given, cols, dbType, handler, pc, ci, captured, hist>>

\* A destination of Scan: the address of a variable of Go type t holding v
\* (k = "ptr"), or, once Scan has put a stored value in the slot itself, that
\* value (k = "any").
PtrTo(t) == [k |-> "ptr", t |-> t, v |-> 0]

Dests == {PtrTo("int64"), PtrTo("*time.Time")}

\* The destination lists given to Scan: shorter than, as long as and longer
\* than the rows of the one and two column row sets.
DestLists == SeqsUpTo(Dests, 2)

\* The decimal text of the lengths in the messages of Scan.
Itoa(n) == <<"0", "1", "2", "3", "4", "5", "6">>[n + 1]

RECURSIVE ScanLoop(_, _, _, _)
\* The loop of Scan over the row (lines 170-177) from column i on.  A write by
\* reflection panics when the destination is no address, when the stored value
\* is nil, and when the value cannot be assigned to the variable.
ScanLoop(row, vals, dest, i) ==
    IF i > Len(vals)
    THEN [err |-> "nil", dest |-> dest, panicked |-> FALSE]
    ELSE IF i > Len(row.columnTypes)
    THEN [err |-> "nil", dest |-> dest, panicked |-> TRUE]
    ELSE IF Nullable(row.columnTypes[i])[1]
    THEN ScanLoop(row, vals,
                  [dest EXCEPT ![i] = [k |-> "any", t |-> vals[i].t, v |-> vals[i].v]],
                  i + 1)
    ELSE IF dest[i].k # "ptr" \/ vals[i] = Nil \/ vals[i].t # dest[i].t
    THEN [err |-> "nil", dest |-> dest, panicked |-> TRUE]
    ELSE ScanLoop(row, vals, [dest EXCEPT ![i].v = vals[i].v], i + 1)

\* Scan(dest...): the error returned ("nil" for none), the destinations after
\* the call and whether the call panicked instead of returning.
ScanOf(row, dest) ==
    IF row.pos = 0
    THEN [err |-> "sql: Scan called without calling Next", dest |-> dest,
          panicked |-> FALSE]
    ELSE IF row.pos > Len(row.values)
    THEN [err |-> "no more rows", dest |-> dest, panicked |-> FALSE]
    ELSE IF Len(dest) # Len(row.values[row.pos])
    THEN [err |-> "destination length " \o Itoa(Len(dest))
                  \o " does not match row length " \o Itoa(Len(row.values[row.pos])),
          dest |-> dest, panicked |-> FALSE]
    ELSE ScanLoop(row, row.values[row.pos], dest, 1)

Scan ==
    /\ pc = "ready"
    /\ \E dest \in DestLists :
         LET r == ScanOf(m, dest)
         IN  /\ pc' = IF r.panicked THEN "aborted" ELSE "ready"
             /\ last' = [op |-> "Scan", dest |-> dest, err |-> r.err, out |-> r.dest,
                         panicked |-> r.panicked, before |-> m]
    /\ hist' = [hist EXCEPT !.scanFirst = @ \/ hist.nNext = 0]
    /\ UNCHANGED <<given, cols, dbType, handler, ci, m, captured>>

\* ------------------------------------------------------- specifications

Dialects == {DbTypeSnowflake, DbTypePostgresSQL, DbTypeMsSQL, DbTypeMsSQL + 1}

InitNew ==
    Entry({<<r>> : r \in AttrRecipes} \cup SeqsUpTo(ListRecipes, MaxCols),
          Dialects, Handlers)

NextNew == ParseStep \/ Return \/ ColumnTypes \/ Columns

\* NewMockRowSet on every list of specifications, and the reads of the
\* descriptors it leaves.
SpecNew == InitNew /\ [][NextNew]_vars

Init == Entry(RowRecipes, {DbTypeSnowflake}, {"capture"})

NextStep ==
    \/ ParseStep \/ Return \/ ColumnTypes \/ Columns
    \/ Add \/ AddRow \/ Next \/ NextResultSet \/ SetHasNextSet \/ Scan

\* A row set of one or two columns, its rows appended and read in any order.
Spec == Init /\ [][NextStep]_vars

\* ------------------------------------------------------------ properties

\* The destinations fit the row set: one for each column, and for a column
\* that is not nullable the address of a variable of the column's scan type.
FitDest(row, dest) ==
    /\ Len(dest) = Len(row.columnTypes)
    /\ \A i \in 1..Len(dest) :
         \/ Nullable(row.columnTypes[i])[1]
         \/ dest[i].k = "ptr" /\ dest[i].t = ScanType(row.columnTypes[i]).base

\* Scan has delivered the row vals: a nullable column's slot is the stored
\* value itself, another column's variable holds the stored value.
Delivered(row, vals, dest, out) ==
    /\ Len(out) = Len(vals)
    /\ \A i \in 1..Len(vals) :
         IF Nullable(row.columnTypes[i])[1]
         THEN out[i] = [k |-> "any", t |-> vals[i].t, v |-> vals[i].v]
         ELSE /\ vals[i] # Nil
              /\ out[i] = [k |-> "ptr", t |-> dest[i].t, v |-> vals[i].v]

\* C1: when no row was appended after the first Next, the n-th call of Next
\* returns true exactly if n is at most the number of rows; and a Next that
\* follows a false Next with no row appended in between returns false.
C1_NextTrueExactlyN ==
    last.op = "Next" =>
        /\ ~hist.addedAfter => (last.ret <=> hist.nNext <= Len(m.values))
        /\ last.ret => ~last.afterFalse

C1_Witness ==
    /\ last.op = "Next"
    /\ ~hist.addedAfter
    /\ Len(m.values) = 2
    /\ hist.nNext = 4
    /\ ~last.ret
    /\ last.afterFalse

\* Scan before any Next returns its own error, writes no destination and
\* leaves the row set and its cursor as they were.
ScanBeforeNextFails ==
    (last.op = "Scan" /\ hist.nNext = 0) =>
        /\ ~last.panicked
        /\ last.err = "sql: Scan called without calling Next"
        /\ last.err # "no more rows"
        /\ last.out = last.dest
        /\ m = last.before
        /\ m.pos = 0

\* C2: Scan before any Next returns "sql: Scan called without calling Next",
\* writes no destination and leaves the cursor not started; with a row stored,
\* the Next after it returns true and the Scan after that, given fitting
\* destinations, delivers the first appended row.
C2_ScanBeforeNext ==
    /\ ScanBeforeNextFails
    /\ (last.op = "Next" /\ hist.nNext = 1 /\ hist.scanFirst
            /\ Len(last.before.values) >= 1) =>
          last.ret /\ m.pos = 1
    /\ (last.op = "Scan" /\ hist.nNext = 1 /\ hist.scanFirst
            /\ hist.lastNext = "true" /\ FitDest(m, last.dest)) =>
          /\ ~last.panicked
          /\ last.err = "nil"
          /\ Delivered(m, m.values[1], last.dest, last.out)

\* C3: when the latest Next returned false, Scan returns "no more rows".
C3_ScanAfterFalseNext ==
    (last.op = "Scan" /\ hist.lastNext = "false") =>
        ~last.panicked /\ last.err = "no more rows"

\* The row Add stores for a map: under each column the value given under the
\* column's name in some letter case, nil where no such name was given.
StoredBy(row, rowMap, vals) ==
    /\ Len(vals) = Len(row.columns)
    /\ \A j \in 1..Len(vals) :
         LET keys == {k \in DOMAIN rowMap : ToLower(k) = ToLower(row.columns[j])}
         IN  IF keys = {} THEN vals[j] = Nil ELSE vals[j] \in {rowMap[k] : k \in keys}

\* Add appends, after the rows there are, the row of its map.
AddStoresRow ==
    (last.op = "Add" /\ last.calls = 0) =>
        /\ Len(m.values) = Len(last.before.values) + 1
        /\ SubSeq(m.values, 1, Len(last.before.values)) = last.before.values
        /\ StoredBy(m, last.row, m.values[Len(m.values)])

\* C4: Add appends the row of its map, and after the k-th Next returned true
\* (no row appended since the first Next) a Scan with fitting destinations
\* returns no error and delivers the k-th appended row.
C4_ScanDeliversRow ==
    /\ AddStoresRow
    /\ (last.op = "Scan" /\ ~hist.addedAfter /\ hist.lastNext = "true"
            /\ FitDest(m, last.dest)) =>
          /\ ~last.panicked
          /\ last.err = "nil"
          /\ Delivered(m, m.values[hist.nNext], last.dest, last.out)

\* Every specification of the list was accepted and NewMockRowSet returned.
AllAccepted == pc = "ready" /\ captured = <<>>

\* C5: when every specification was accepted, Columns() returns the names as
\* written, in the order of the list, ColumnTypes() returns one view for each
\* specification with the same names in the same order, neither returns an
\* error and neither changes the row set.
C5_ColumnsInOrder ==
    AllAccepted =>
        /\ last.op = "Columns" =>
              /\ last.err = "nil"
              /\ last.ret = [i \in 1..Len(given) |-> given[i].name]
              /\ m = last.before
        /\ last.op = "ColumnTypes" =>
              /\ last.err = "nil"
              /\ Len(last.ret) = Len(given)
              /\ \A i \in 1..Len(given) :
                   Name(last.ret[i]) = given[i].name /\ Name(last.ret[i]) = ColumnsOf(m)[i]
              /\ m = last.before

C5_Witness ==
    /\ AllAccepted
    /\ last.op = "Columns"
    /\ last.ret = <<"Id", "NAME">>

\* The types the registry knows, plain and behind the pointer mark.
ValidTypes == {<<b>> : b \in baseTypes} \cup {<<"*", b>> : b \in baseTypes}

IsNumeral(text) == text = "" \/ text \in DOMAIN Numerals

\* The recipe makes a specification string with nothing to reject in it.
WellFormed(r) ==
    /\ r.name # ""
    /\ r.ty \in ValidTypes
    /\ IsNumeral(r.length) /\ IsNumeral(r.precision) /\ IsNumeral(r.scale)
    /\ r.extra = "none"

ValidDialect == dbType \in {DbTypeSnowflake, DbTypePostgresSQL, DbTypeMsSQL}

\* The name is, ignoring case, the name of one of the descriptors.
Duplicates(name, descriptors) ==
    \E i \in 1..Len(descriptors) : ToLower(descriptors[i].colName) = ToLower(name)

\* parseColumnSpec has just run on the specification of recipe given[last.i].
Parsed == last.op = "parseColumnSpec"

\* parseColumnSpec has just appended a descriptor.
Appends == Parsed /\ Len(m.columnTypes) = Len(last.before) + 1

\* C6: a specification whose name is, ignoring case, the name of an earlier
\* descriptor reports a failure and adds no descriptor, and the failure is the
\* duplicate when nothing else is wrong with it; no two descriptors have names
\* equal ignoring case, and the name index maps each lower-cased name to the
\* position of its descriptor.
C6_NoDuplicateNames ==
    /\ (Parsed /\ given[last.i].name # ""
            /\ Duplicates(given[last.i].name, last.before)) =>
          /\ last.calls >= 1
          /\ m.columnTypes = last.before
          /\ (WellFormed(given[last.i]) /\ ValidDialect) =>
                last.msgs = <<"duplicate column name in mock row set: "
                              \o given[last.i].name>>
    /\ \A i, j \in 1..Len(m.columnTypes) :
          i # j => ToLower(m.columnTypes[i].colName) # ToLower(m.columnTypes[j].colName)
    /\ Len(m.columns) = Len(m.columnTypes)
    /\ DOMAIN m.orderLwr = {ToLower(m.columns[i]) : i \in 1..Len(m.columns)}
    /\ \A i \in 1..Len(m.columns) :
          /\ m.columnTypes[i].colName = m.columns[i]
          /\ m.orderLwr[ToLower(m.columns[i])] = i - 1

C6_Witness ==
    /\ Parsed
    /\ handler = "capture"
    /\ last.i = 2
    /\ given[2].name = "Id"
    /\ Len(last.before) = 1
    /\ last.before[1].colName = "ID"
    /\ last.msgs = <<"duplicate column name in mock row set: Id">>
    /\ m.columns = <<"ID">>

\* The dialect's table of native type names.
NativeNames ==
    CASE dbType = DbTypeSnowflake -> dbTypesSnowflake
      [] dbType = DbTypePostgresSQL -> dbTypesPostgres
      [] OTHER -> dbTypesMsSql

\* The native type name a recipe of a known type resolves to.
Resolved(r) == IF r.dbt # "" THEN r.dbt ELSE NativeNames[r.ty[Len(r.ty)]]

\* The entry of the dialect's defaults table under a name: the zero triple
\* when the table has no such key.
DefaultsEntry(name) ==
    IF name \in DOMAIN dbTypeDefaults[dbType]
    THEN dbTypeDefaults[dbType][name]
    ELSE Dflt(0, 0, 0)

\* The descriptor parseColumnSpec has just appended.
NewColumn == m.columnTypes[Len(m.columnTypes)]

C8_ExplicitOverrides ==
    Appends =>
        /\ given[last.i].length # "" => NewColumn.length = Numerals[given[last.i].length]
        /\ given[last.i].precision # "" =>
              NewColumn.precision = Numerals[given[last.i].precision]
        /\ given[last.i].scale # "" => NewColumn.scale = Numerals[given[last.i].scale]
        /\ given[last.i].dbt # "" => DatabaseTypeName(NewColumn) = given[last.i].dbt

C8_Witness ==
    /\ Appends
    /\ dbType = DbTypeSnowflake
    /\ given[last.i].ty = <<"string">>
    /\ given[last.i].length = "" /\ given[last.i].precision = "0"
    /\ given[last.i].scale = "2" /\ given[last.i].dbt = "NUMBER"
    /\ DefaultsEntry("NUMBER").precision = 38
    /\ NewColumn.length = 0 /\ NewColumn.precision = 0 /\ NewColumn.scale = 2
    /\ DatabaseTypeName(NewColumn) = "NUMBER"

\* C9: NextResultSet returns true exactly when hasNextSet is set and leaves
\* it clear, changing nothing else of the row set; no other call but the
\* setting of the flag changes it; and Next and Scan do the same whether the
\* flag is set or not.
C9_NextResultSetOnce ==
    /\ last.op = "NextResultSet" =>
          /\ last.ret <=> last.before.hasNextSet
          /\ m = [last.before EXCEPT !.hasNextSet = FALSE]
    /\ last.op \in {"Add", "AddRow", "Next", "Scan", "Columns", "ColumnTypes"} =>
          m.hasNextSet = last.before.hasNextSet
    /\ last.op = "Next" =>
          LET other == NextOf([last.before EXCEPT !.hasNextSet = ~@])
          IN  other.ret = last.ret /\ other.row.pos = m.pos
                /\ other.row.values = m.values
    /\ last.op = "Scan" =>
          LET other == ScanOf([last.before EXCEPT !.hasNextSet = ~@], last.dest)
          IN  other = [err |-> last.err, dest |-> last.out, panicked |-> last.panicked]

C9_Witness ==
    /\ last.op = "NextResultSet"
    /\ last.ret
    /\ m.pos = 1
    /\ Len(m.values) = 2
    /\ ~m.hasNextSet

\* C10: with a handler that keeps the message and returns, a specification
\* that is to be rejected (malformed, of an unknown type, for an unknown
\* dialect, or a duplicate) calls the handler and adds no descriptor, and any
\* other adds its descriptor at the end without a call.
C10_RejectedAddsNothing ==
    (Parsed /\ handler = "capture") =>
        IF \/ ~WellFormed(given[last.i])
           \/ ~ValidDialect
           \/ Duplicates(given[last.i].name, last.before)
        THEN last.calls >= 1 /\ m.columnTypes = last.before
        ELSE /\ last.calls = 0
             /\ Appends
             /\ SubSeq(m.columnTypes, 1, Len(last.before)) = last.before
             /\ Name(NewColumn) = given[last.i].name

\* The names of the map that match no column of the row set in any case.
UnknownNames(row, rowMap) ==
    {k \in DOMAIN rowMap : ToLower(k) \notin DOMAIN row.orderLwr}

\* C11: Add with a map holding a name that matches no column in any letter
\* case calls the failure handler once, with the message naming such a name;
\* the handler returning, no row is appended and the rows, the descriptors,
\* the name indexes and the cursor are as before the call.
C11_AddUnknownName ==
    (last.op = "Add" /\ UnknownNames(last.before, last.row) # {}) =>
        /\ last.calls = 1
        /\ ~last.aborted
        /\ \E k \in UnknownNames(last.before, last.row) :
              /\ last.msgs = <<"column " \o k \o " does not exist">>
              /\ captured[Len(captured)] = last.msgs[1]
        /\ m = last.before

\* Add was given a column and an unknown name while the cursor is on a row.
C11_Witness ==
    /\ last.op = "Add"
    /\ DOMAIN last.row = {"ID", "XYZ"}
    /\ last.calls = 1
    /\ m.pos = 1
    /\ Len(m.values) = 1
    /\ m = last.before

\* The table of native type names of a known dialect (the switch of
\* getColumnType, lines 331-341).
NativeNamesOf(dialect) ==
    CASE dialect = DbTypeSnowflake -> dbTypesSnowflake
      [] dialect = DbTypePostgresSQL -> dbTypesPostgres
      [] dialect = DbTypeMsSQL -> dbTypesMsSql

\* C12: for every type of baseTypes and each of the three dialects (dbType is
\* any of them), the dialect's table of native type names has a non-empty
\* name for the type, and that name is a key of the dialect's table in
\* dbTypeDefaults.
C12_RegistryConsistent ==
    dbType \in {DbTypeSnowflake, DbTypePostgresSQL, DbTypeMsSQL} =>
        \A baseType \in baseTypes :
            /\ baseType \in DOMAIN NativeNamesOf(dbType)
            /\ NativeNamesOf(dbType)[baseType] # ""
            /\ NativeNamesOf(dbType)[baseType] \in DOMAIN dbTypeDefaults[dbType]

\* C13: however Add, AddRow and Next are interleaved, the k-th Next that
\* returns true puts the cursor on the k-th appended row, and a Next returns
\* false only when every appended row has been reached by an earlier Next.
C13_AppendedRowsReached ==
    last.op = "Next" =>
        /\ last.ret => m.pos = hist.nTrue
        /\ ~last.ret => hist.nTrue >= Len(m.values)

\* Scan was called with the cursor on a row and a number of destinations
\* that is not the width of that row.
MismatchScan ==
    /\ last.op = "Scan"
    /\ last.before.pos \in 1..Len(last.before.values)
    /\ Len(last.dest) # Len(last.before.values[last.before.pos])

\* Such a Scan returns the length-mismatch error, writes no destination and
\* leaves the row set and its cursor as they were.
MismatchScanFails ==
    MismatchScan =>
        /\ ~last.panicked
        /\ last.err = "destination length " \o Itoa(Len(last.dest))
                       \o " does not match row length " \o Itoa(Len(m.values[m.pos]))
        /\ last.err \notin {"nil", "no more rows",
                            "sql: Scan called without calling Next"}
        /\ last.out = last.dest
        /\ m = last.before

\* C14: a Scan with the cursor on a row and a number of destinations other
\* than the row's width returns the length-mismatch error, writes nothing and
\* leaves the cursor where it is, and the Scan that follows it at once, given
\* fitting destinations, returns no error and delivers that row.
C14_ScanLengthMismatch ==
    /\ []MismatchScanFails
    /\ [][(MismatchScan /\ last'.op = "Scan" /\ FitDest(m, last'.dest)) =>
            /\ ~last'.panicked
            /\ last'.err = "nil"
            /\ Delivered(m, m.values[m.pos], last'.dest, last'.out)]_vars

\* AddRow has appended one row and changed nothing else.
AddRowAppended(stored) ==
    /\ pc = "ready"
    /\ m = [last.before EXCEPT !.values = Append(@, stored)]

\* AddRow(values) appends exactly one row that has the given values, element
\* for element, whatever their number.
C15_AddRowSameLength ==
    last.op = "AddRow" => AddRowAppended(last.values)

\* C15: AddRow(values) appends exactly one row that has one element for each
\* column descriptor: the values in order as far as there are columns, nil in
\* the columns past the last value, and no element for a value past the last
\* column; no failure is reported and the rows there were, the descriptors
\* and the cursor are unchanged.
C15_AddRowCopies ==
    last.op = "AddRow" =>
        /\ AddRowAppended(m.values[Len(m.values)])
        /\ Len(m.values[Len(m.values)]) = Len(m.columnTypes)
        /\ \A j \in 1..Len(m.columnTypes) :
              m.values[Len(m.values)][j] =
                  IF j <= Len(last.values) THEN last.values[j] ELSE Nil

\* AddRow was given more values than there are columns, with the cursor on
\* an earlier row.
C15_Witness ==
    /\ last.op = "AddRow"
    /\ Len(last.values) = 3
    /\ Len(m.columnTypes) = 2
    /\ Len(m.values) = 2
    /\ m.pos = 1

\* C16: with a failure handler that keeps the message and returns,
\* parseColumnSpec calls the failure handler at most once for one
\* specification string, whatever the string and the dialect.
C16_HandlerCalledOnce ==
    (last.op = "parseColumnSpec" /\ handler = "capture") => last.calls <= 1

\* The name of a Go type.
TypeName(goType) == IF goType.ptr THEN "*" \o goType.base ELSE goType.base

\* Each destination is the address of a variable of its column's scan type.
ScanTypeDest(row, dest) ==
    \A i \in 1..Len(dest) :
        i <= Len(row.columnTypes) =>
            /\ dest[i].k = "ptr"
            /\ dest[i].t = TypeName(ScanType(row.columnTypes[i]))

\* C17: a Scan whose destinations are each the address of a variable of its
\* column's scan type returns (no error or an error) and does not panic, in
\* every state of the rows and the cursor, a row in which Add left nil in a
\* column that is not nullable included.
C17_ScanNeverAborts ==
    (last.op = "Scan" /\ ScanTypeDest(last.before, last.dest)) => ~last.panicked

====
